---- MODULE Spec2Model ----
(***************************************************************************)
(* sails-hook-quest: the job scheduler of core/job-control.js,             *)
(* core/loader.js, core/executor.js, core/scheduler.js and the hook's      *)
(* index.js, as a state machine.                                           *)
(*                                                                         *)
(* The state is the hook's three Maps (jobs, timers, running), the         *)
(* platform's pool of armed setTimeout handles, the child processes that   *)
(* have been spawned and have not delivered their last event, and the      *)
(* clock.  One action per API call of sails.quest and per callback the     *)
(* platform invokes (timer callback, child 'exit', child 'error').         *)
(*                                                                         *)
(* Time is counted in ticks of TickMs milliseconds; every instant of the   *)
(* model is a whole number of ticks.                                       *)
(***************************************************************************)
EXTENDS Integers, Sequences, FiniteSets, Bags, TLC

\* ------------------------------------------------------------------ bounds
MaxTime == 3            \* the clock stops advancing here
MaxInflight == 2        \* child processes alive at once
TwoHorizon == 2         \* the clock's last instant when two names are in play
TwoChildren == 1        \* child processes alive at once with two names
MaxConfig == 3          \* entries of config.jobs
LoadHorizon == 1        \* the clock's last instant after a load
InputsHorizon == 1      \* the clock's last instant when inputs are given
ShotHorizon == 2        \* the clock's last instant with one-shot schedules
MaxDepth == 3           \* nested calls of scheduleJob the call stack takes
RunHorizon == 1         \* the clock's last instant when run() is followed
CatchHorizon == 1       \* the clock's last instant with overdue schedules
EventsHorizon == 1      \* the clock's last instant when events are emitted
FrameHorizon == 1       \* the clock's last instant with two jobs in flight
MergeHorizon == 1       \* the clock's last instant after a merging load
MaxCalls == 2           \* the calls of a machine job function

\* --------------------------------------------------------------- constants
MAX_SAFE_TIMEOUT_MS == 2147483647
\* one tick of the model clock is the longest delay setTimeout takes, so
\* a delay of d ticks exceeds 2^31-1 ms iff d > MAX_SAFE_TIMEOUT
TickMs == MAX_SAFE_TIMEOUT_MS
MAX_SAFE_TIMEOUT == MAX_SAFE_TIMEOUT_MS \div TickMs

Names == {"a", "b"}

NoTimer == 0            \* timers.get(name) === undefined
Fired == -1             \* timers.get(name) is a handle that has fired
NoFirst == -1           \* no timer chain is being continued

\* The schedule fields of a job definition.  kind names the fields that are
\* set; val is the number they resolve to (ticks, or the cron grid's period).
\*   none         no schedule field
\*   cron         a valid cron expression firing at every multiple of val
\*   cronCurrent  cron with cronOptions.currentDate set to CurrentDate
\*   badcron      a cron string the parser rejects
\*   interval     interval: <number val>
\*   text         interval: <string> that the interval parsers resolve to val
\*                (val = 0: no parser resolves it)
\*   timeout      timeout: <number val>
\*   date         date: <instant val>
\*   dateTimeout  date and timeout both set
Scheds ==
  { [kind |-> "none", val |-> 0],
    [kind |-> "cron", val |-> MAX_SAFE_TIMEOUT + 1],
    [kind |-> "interval", val |-> 1],
    [kind |-> "interval", val |-> MAX_SAFE_TIMEOUT + 1],
    [kind |-> "timeout", val |-> 0],
    [kind |-> "date", val |-> 2 * MAX_SAFE_TIMEOUT + 1],
    [kind |-> "dateTimeout", val |-> 1] }

\* the instant a job's cronOptions.currentDate names
CurrentDate == 0

\* jobDef.withoutOverlapping: true, false or not given
WoGiven == {"true", "false", "unset"}

\* config.withoutOverlapping of the hook's defaults
ConfigWithoutOverlapping == TRUE

\* An object of inputs: the value of each key, Undef for a key it lacks.
Keys == {"x", "y"}
Undef == -1
Values == 0..2
Layers == [Keys -> Values \cup {Undef}]
NoInputs == [k \in Keys |-> Undef]

\* { ...a, ...b }
Spread(a, b) == [k \in Keys |-> IF b[k] # Undef THEN b[k] ELSE a[k]]

NoJob == [reg |-> FALSE, sched |-> [kind |-> "none", val |-> 0],
          paused |-> FALSE, wo |-> FALSE,
          inputs |-> NoInputs, scriptInputs |-> NoInputs]

VARIABLES
  scope,      \* the configuration, the script files and the API's arguments
  hook,       \* "constructed", then "initialized" (sails.quest is defined)
              \* or "failed" (initialize threw; sails.quest stays undefined)
  autoStart,  \* sails.config.quest.autoStart
  jobs,       \* the jobs Map: name -> normalized job, NoJob when absent
  order,      \* the key order of the jobs Map
  timers,     \* the timers Map: name -> handle, NoTimer when absent
  pending,    \* the armed setTimeout handles that have not fired
  running,    \* the running Map: running.has(name)
  execs,      \* the bag of spawned children that may still deliver an event
  runCall,    \* the promise the last run() returned, when its caller kept it
  now,        \* Date.now(), in ticks
  invocations, \* the calls of the functions machineAsJob returned
  last        \* what the last step did and returned

vars ==
  <<scope, hook, autoStart, jobs, order, timers, pending, running, execs,
    runCall, now, invocations, last>>

\* ------------------------------------------------------------ the parser

\* job.interval || job.cron, as the scheduler's callbacks test it
Recurring(sched) ==
  \/ sched.kind \in {"cron", "cronCurrent", "badcron", "text"}
  \/ sched.kind = "interval" /\ sched.val # 0

Instant(t) == [ok |-> TRUE, throws |-> FALSE, t |-> t]
NotScheduled == [ok |-> FALSE, throws |-> FALSE, t |-> 0]
Thrown == [ok |-> FALSE, throws |-> TRUE, t |-> 0]

\* parseInterval / parseTimeout on a number of ticks from fromDate
parseInterval(ms, fromDate) ==
  IF ms # 0 THEN Instant(fromDate + ms) ELSE NotScheduled

parseTimeout(timeout, fromDate) == Instant(fromDate + timeout)

\* CronExpressionParser.parse(cron, options).next(): the first instant of the
\* cron grid strictly after currentDate, which is now unless the options
\* name another
cronNext(period, currentDate) == ((currentDate \div period) + 1) * period

getNextRunTime(sched, t) ==
  IF sched.kind = "dateTimeout" THEN Thrown
  ELSE IF sched.kind = "cron" THEN Instant(cronNext(sched.val, t))
  ELSE IF sched.kind = "cronCurrent"
    THEN Instant(cronNext(sched.val, CurrentDate))
  ELSE IF sched.kind = "badcron" THEN NotScheduled
  ELSE IF sched.kind = "text" THEN parseInterval(sched.val, t)
  ELSE IF sched.kind = "interval" THEN Instant(t + sched.val)
  ELSE IF sched.kind = "timeout" THEN parseTimeout(sched.val, t)
  ELSE IF sched.kind = "date" /\ sched.val > t THEN Instant(sched.val)
  ELSE NotScheduled

\* ------------------------------------------------- the machine in one step
\* An operation is a function on M, the record of everything it reads and
\* writes: the Maps, the handle pool, the children, plus its inputs (t, the
\* clock; gone, the names whose script file is missing) and its outputs
\* (res, the outcomes of the dispatches of each name, in order; ret, the names for which
\* it returned true; cleared, the names whose armed handle it cleared;
\* thrown, whether it threw; sink, the inputs handed to the child processes
\* it spawned for each name, in order; given, the custom inputs of a run
\* call; events, the lifecycle events it emitted, in order).  depth counts the calls of scheduleJob on the stack.  full marks a step that needs more children
\* than MaxInflight and is not taken.

NoRes == [n \in Names |-> <<>>]

\* The promise of a run() call: state is the state of Promise.all over the
\* promises of its dispatches; failed says that one of the executions it
\* dispatched has failed (the executor built an Error for it).
NoRun == [state |-> "none", failed |-> FALSE]

\* reject(error) in one of the promises
Rejects(run) ==
  [state |-> IF run.state = "pending" THEN "rejected" ELSE run.state,
   failed |-> TRUE]

\* the children whose promise the call still waits for
Awaited(bag) ==
  {e \in BagToSet(bag) : e.awaited /\ e.phase = "spawned"}

\* resolve(value) in one of the promises, bag being the other children
Resolves(run, bag) ==
  IF run.state = "pending" /\ Awaited(bag) = {}
    THEN [run EXCEPT !.state = "fulfilled"]
    ELSE run

Machine(gone) ==
  [jobs |-> jobs, order |-> order, timers |-> timers, pending |-> pending,
   running |-> running, execs |-> execs, t |-> now, gone |-> gone,
   run |-> runCall, awaited |-> FALSE,
   res |-> NoRes, ret |-> {}, cleared |-> {}, thrown |-> FALSE,
   sink |-> NoRes, given |-> NoInputs, events |-> <<>>, depth |-> 0,
   full |-> FALSE]

\* A handle is the pair of the name it was armed for and an id; the handles
\* armed for one name and not yet fired or cleared have distinct ids.
UsedIds(m, name) == {p.id : p \in {q \in m.pending : q.name = name}}

FreshId(m, name) ==
  CHOOSE i \in 1..(Cardinality(UsedIds(m, name)) + 1) :
    /\ i \notin UsedIds(m, name)
    /\ \A j \in 1..(i - 1) : j \in UsedIds(m, name)

\* clearTimeout(timers.get(name))
clearTimeout(m, name) ==
  {p \in m.pending : ~(p.name = name /\ p.id = m.timers[name])}

\* {name} when that call cancels an armed handle
Cleared(m, name) ==
  IF clearTimeout(m, name) # m.pending THEN {name} ELSE {}

\* a minimal job that does not overlap
minimalJob_noOverlap ==
  [reg |-> FALSE, sched |-> [kind |-> "none", val |-> 0],
   paused |-> FALSE, wo |-> TRUE,
   inputs |-> NoInputs, scriptInputs |-> NoInputs]

\* the job executeJob of index.js hands to the executor
minimalJob == [reg |-> FALSE, sched |-> [kind |-> "none", val |-> 0],
               paused |-> FALSE, wo |-> FALSE,
               inputs |-> NoInputs, scriptInputs |-> NoInputs]

\* ------------------------------------------------------------ executor.js
\* sails.emit('quest:job:start' | 'quest:job:complete' | 'quest:job:error'):
\* an event is [name, type, nth, duration].  nth counts the terminal events
\* ('complete' or 'error') emitted so far for the execution the event belongs
\* to, this one included (0 for 'start').  duration is the value the event
\* carries:
\*   "elapsed"       Date.now() minus the start instant this execution put
\*                   in the running Map
\*   "elapsedOther"  Date.now() minus the start instant another execution of
\*                   the name put there
\*   "NaN"           Date.now() minus undefined
\*   "zero"          the literal 0, or Date.now() minus Date.now()
\*   "none"          the event has no duration field
StartEvent(name) ==
  [name |-> name, type |-> "start", nth |-> 0, duration |-> "none"]

CompleteEvent(name, nth, duration) ==
  [name |-> name, type |-> "complete", nth |-> nth, duration |-> duration]

ErrorEvent(name, nth, duration) ==
  [name |-> name, type |-> "error", nth |-> nth, duration |-> duration]

\* if (global.sails) { sails.emit(...) }: the executor emits through the
\* global variable sails, which an application can switch off
\* (scope.sails); the events change nothing else in the scheduler
Emit(events, ev) == IF scope.sails THEN Append(events, ev) ELSE events

\* A child is [name, phase, mine, awaited]: phase is "spawned" until its first
\* event and "errored" after an 'error' that an 'exit' may still follow; mine
\* says that running.get(name) is the start instant this child's dispatch
\* recorded (running.set overwrites and running.delete drops the one entry of
\* a name); awaited says that the promise of its dispatch is one of those the
\* kept run() promise waits for (m.awaited: the dispatch is made by that call).
Disown(bag, name) ==
  BagOfAll(LAMBDA e : IF e.name = name THEN [e EXCEPT !.mine = FALSE] ELSE e,
           bag)

\* executeJob whose overlap test looks at every name of the running Map
executeJob_anyRunning(m, name, customInputs) ==
  LET job == IF m.jobs[name].reg THEN m.jobs[name] ELSE minimalJob
  IN IF job.wo /\ \E x \in Names : m.running[x]
       THEN [m EXCEPT !.res[name] = Append(@, "already_running")]
     ELSE IF job.paused
       THEN [m EXCEPT !.res[name] = Append(@, "paused")]
     ELSE IF name \in m.gone
       THEN [m EXCEPT !.running[name] = FALSE,
                      !.execs = Disown(@, name),
                      !.run = IF m.awaited THEN Rejects(@) ELSE @,
                      !.res[name] = Append(@, "missing"),
                      !.events = Emit(Emit(@, StartEvent(name)),
                                      ErrorEvent(name, 1, "zero"))]
     ELSE IF BagCardinality(m.execs) >= MaxInflight
          \/ BagCardinality(m.execs) >= scope.children
       THEN [m EXCEPT !.full = TRUE]
     ELSE [m EXCEPT !.running[name] = TRUE,
                    !.execs = Disown(@, name)
                                (+) SetToBag({[name |-> name, mine |-> TRUE,
                                               phase |-> "spawned",
                                               awaited |-> m.awaited]}),
                    !.res[name] = Append(@, "started"),
                    !.events = Emit(@, StartEvent(name)),
                    !.sink[name] =
                      Append(@, Spread(Spread(job.inputs, job.scriptInputs),
                                       customInputs))]

\* executeJob that tests paused before overlap
executeJob_pauseFirst(m, name, customInputs) ==
  LET job == IF m.jobs[name].reg THEN m.jobs[name] ELSE minimalJob
  IN IF job.paused
       THEN [m EXCEPT !.res[name] = Append(@, "paused")]
     ELSE IF job.wo /\ m.running[name]
       THEN [m EXCEPT !.res[name] = Append(@, "already_running")]
     ELSE IF name \in m.gone
       THEN [m EXCEPT !.running[name] = FALSE,
                      !.execs = Disown(@, name),
                      !.run = IF m.awaited THEN Rejects(@) ELSE @,
                      !.res[name] = Append(@, "missing"),
                      !.events = Emit(Emit(@, StartEvent(name)),
                                      ErrorEvent(name, 1, "zero"))]
     ELSE IF BagCardinality(m.execs) >= MaxInflight
          \/ BagCardinality(m.execs) >= scope.children
       THEN [m EXCEPT !.full = TRUE]
     ELSE [m EXCEPT !.running[name] = TRUE,
                    !.execs = Disown(@, name)
                                (+) SetToBag({[name |-> name, mine |-> TRUE,
                                               phase |-> "spawned",
                                               awaited |-> m.awaited]}),
                    !.res[name] = Append(@, "started"),
                    !.events = Emit(@, StartEvent(name)),
                    !.sink[name] =
                      Append(@, Spread(Spread(job.inputs, job.scriptInputs),
                                       customInputs))]

\* executeJob without the paused test
executeJob_noPause(m, name, customInputs) ==
  LET job == IF m.jobs[name].reg THEN m.jobs[name] ELSE minimalJob
  IN IF job.wo /\ m.running[name]
       THEN [m EXCEPT !.res[name] = Append(@, "already_running")]
     ELSE IF name \in m.gone
       THEN [m EXCEPT !.running[name] = FALSE,
                      !.execs = Disown(@, name),
                      !.run = IF m.awaited THEN Rejects(@) ELSE @,
                      !.res[name] = Append(@, "missing"),
                      !.events = Emit(Emit(@, StartEvent(name)),
                                      ErrorEvent(name, 1, "zero"))]
     ELSE IF BagCardinality(m.execs) >= MaxInflight
          \/ BagCardinality(m.execs) >= scope.children
       THEN [m EXCEPT !.full = TRUE]
     ELSE [m EXCEPT !.running[name] = TRUE,
                    !.execs = Disown(@, name)
                                (+) SetToBag({[name |-> name, mine |-> TRUE,
                                               phase |-> "spawned",
                                               awaited |-> m.awaited]}),
                    !.res[name] = Append(@, "started"),
                    !.events = Emit(@, StartEvent(name)),
                    !.sink[name] =
                      Append(@, Spread(Spread(job.inputs, job.scriptInputs),
                                       customInputs))]

\* executeJob that lets the job's own inputs win over the caller's
executeJob_baseWins(m, name, customInputs) ==
  LET job == IF m.jobs[name].reg THEN m.jobs[name] ELSE minimalJob
  IN IF job.wo /\ m.running[name]
       THEN [m EXCEPT !.res[name] = Append(@, "already_running")]
     ELSE IF job.paused
       THEN [m EXCEPT !.res[name] = Append(@, "paused")]
     ELSE IF name \in m.gone
       THEN [m EXCEPT !.running[name] = FALSE,
                      !.execs = Disown(@, name),
                      !.run = IF m.awaited THEN Rejects(@) ELSE @,
                      !.res[name] = Append(@, "missing"),
                      !.events = Emit(Emit(@, StartEvent(name)),
                                      ErrorEvent(name, 1, "zero"))]
     ELSE IF BagCardinality(m.execs) >= MaxInflight
          \/ BagCardinality(m.execs) >= scope.children
       THEN [m EXCEPT !.full = TRUE]
     ELSE [m EXCEPT !.running[name] = TRUE,
                    !.execs = Disown(@, name)
                                (+) SetToBag({[name |-> name, mine |-> TRUE,
                                               phase |-> "spawned",
                                               awaited |-> m.awaited]}),
                    !.res[name] = Append(@, "started"),
                    !.events = Emit(@, StartEvent(name)),
                    !.sink[name] =
                      Append(@, Spread(Spread(customInputs, job.scriptInputs),
                                       job.inputs))]

executeJob(m, name, customInputs) ==
  LET job == IF m.jobs[name].reg THEN m.jobs[name] ELSE minimalJob
  IN IF job.wo /\ m.running[name]
       THEN [m EXCEPT !.res[name] = Append(@, "already_running")]
     ELSE IF job.paused
       THEN [m EXCEPT !.res[name] = Append(@, "paused")]
     ELSE IF name \in m.gone
       THEN \* running.set, then the missing script: running.delete, reject
            [m EXCEPT !.running[name] = FALSE,
                      !.execs = Disown(@, name),
                      !.run = IF m.awaited THEN Rejects(@) ELSE @,
                      !.res[name] = Append(@, "missing"),
                      !.events = Emit(Emit(@, StartEvent(name)),
                                      ErrorEvent(name, 1, "zero"))]
     ELSE IF BagCardinality(m.execs) >= MaxInflight
          \/ BagCardinality(m.execs) >= scope.children
       THEN [m EXCEPT !.full = TRUE]
     ELSE [m EXCEPT !.running[name] = TRUE,
                    !.execs = Disown(@, name)
                                (+) SetToBag({[name |-> name, mine |-> TRUE,
                                               phase |-> "spawned",
                                               awaited |-> m.awaited]}),
                    !.res[name] = Append(@, "started"),
                    !.events = Emit(@, StartEvent(name)),
                    !.sink[name] =
                      Append(@, Spread(Spread(job.inputs, job.scriptInputs),
                                       customInputs))]

\* --------------------------------------------------------- job-control.js
\* stopJob that drops the Map entry and leaves the handle armed
stopJob_noClear(m, name) ==
  IF m.timers[name] # NoTimer
    THEN [m EXCEPT !.timers[name] = NoTimer]
    ELSE m

stopJob(m, name) ==
  IF m.timers[name] # NoTimer
    THEN [m EXCEPT !.pending = clearTimeout(m, name),
                   !.cleared = @ \cup Cleared(m, name),
                   !.timers[name] = NoTimer]
    ELSE m

\* timers.set(name, setTimeout(callback, delay))
Arm(m, name, kind, delay, sched, target, first) ==
  LET id == FreshId(m, name)
  IN [m EXCEPT !.pending = @ \cup {[id |-> id, name |-> name, kind |-> kind,
                                    due |-> m.t + delay, sched |-> sched,
                                    target |-> target, first |-> first]},
               !.timers[name] = id]

\* first: the target instant of the timer chain this call continues, or
\* NoFirst when the call starts a new schedule
RECURSIVE scheduleJob(_, _, _)
\* scheduleJob that dispatches a job the parser gives no instant for
scheduleJob_runsUnscheduled(m, name, first) ==
  IF ~m.jobs[name].reg THEN m
  ELSE
    LET m1 == stopJob(m, name)
        job == m1.jobs[name]
        nextRun == getNextRunTime(job.sched, m1.t)
        delay == nextRun.t - m1.t
        origin == IF first = NoFirst THEN nextRun.t ELSE first
    IN IF nextRun.throws THEN [m1 EXCEPT !.thrown = TRUE]
       ELSE IF ~nextRun.ok \/ delay <= 0 THEN
         LET m2 == executeJob(m1, name, NoInputs)
         IN IF nextRun.ok /\ Recurring(job.sched) /\ ~m2.full
              THEN IF m2.depth >= MaxDepth
                     THEN [m2 EXCEPT !.thrown = TRUE]
                     ELSE scheduleJob([m2 EXCEPT !.depth = @ + 1], name, NoFirst)
              ELSE m2
       ELSE IF delay > MAX_SAFE_TIMEOUT THEN
         Arm(m1, name, "chain", MAX_SAFE_TIMEOUT, job.sched, nextRun.t, origin)
       ELSE
         Arm(m1, name, "exec", delay, job.sched, nextRun.t, origin)

\* scheduleJob that does not call itself after an immediate dispatch
scheduleJob_catchUpOnce(m, name, first) ==
  IF ~m.jobs[name].reg THEN m
  ELSE
    LET m1 == stopJob(m, name)
        job == m1.jobs[name]
        nextRun == getNextRunTime(job.sched, m1.t)
        delay == nextRun.t - m1.t
        origin == IF first = NoFirst THEN nextRun.t ELSE first
    IN IF nextRun.throws THEN [m1 EXCEPT !.thrown = TRUE]
       ELSE IF ~nextRun.ok THEN m1
       ELSE IF delay <= 0 THEN executeJob(m1, name, NoInputs)
       ELSE IF delay > MAX_SAFE_TIMEOUT THEN
         Arm(m1, name, "chain", MAX_SAFE_TIMEOUT, job.sched, nextRun.t, origin)
       ELSE
         Arm(m1, name, "exec", delay, job.sched, nextRun.t, origin)

\* scheduleJob that hands every positive delay to setTimeout as it is
scheduleJob_noChain(m, name, first) ==
  IF ~m.jobs[name].reg THEN m
  ELSE
    LET m1 == stopJob(m, name)
        job == m1.jobs[name]
        nextRun == getNextRunTime(job.sched, m1.t)
        delay == nextRun.t - m1.t
        origin == IF first = NoFirst THEN nextRun.t ELSE first
    IN IF nextRun.throws THEN [m1 EXCEPT !.thrown = TRUE]
       ELSE IF ~nextRun.ok THEN m1
       ELSE IF delay <= 0 THEN
         LET m2 == executeJob(m1, name, NoInputs)
         IN IF Recurring(job.sched) /\ ~m2.full
              THEN IF m2.depth >= MaxDepth
                     THEN [m2 EXCEPT !.thrown = TRUE]
                     ELSE scheduleJob([m2 EXCEPT !.depth = @ + 1], name, NoFirst)
              ELSE m2
       ELSE
         Arm(m1, name, "exec", delay, job.sched, nextRun.t, origin)

scheduleJob(m, name, first) ==
  IF ~m.jobs[name].reg THEN m
  ELSE
    LET m1 == stopJob(m, name)
        job == m1.jobs[name]
        nextRun == getNextRunTime(job.sched, m1.t)
        delay == nextRun.t - m1.t
        origin == IF first = NoFirst THEN nextRun.t ELSE first
    IN IF nextRun.throws THEN [m1 EXCEPT !.thrown = TRUE]
       ELSE IF ~nextRun.ok THEN m1
       ELSE IF delay <= 0 THEN
         LET m2 == executeJob(m1, name, NoInputs)
         IN IF Recurring(job.sched) /\ ~m2.full
              THEN \* the recursion ends in a RangeError when the stack is full
                   IF m2.depth >= MaxDepth
                     THEN [m2 EXCEPT !.thrown = TRUE]
                     ELSE scheduleJob([m2 EXCEPT !.depth = @ + 1], name, NoFirst)
              ELSE m2
       ELSE IF delay > MAX_SAFE_TIMEOUT THEN
         Arm(m1, name, "chain", MAX_SAFE_TIMEOUT, job.sched, nextRun.t, origin)
       ELSE
         Arm(m1, name, "exec", delay, job.sched, nextRun.t, origin)

\* the jobNames argument when it is not given
Absent == <<"undefined">>

\* !jobNames ? Array.from(jobs.keys()) : jobNames
NamesOf(m, jobNames) == IF jobNames = Absent THEN m.order ELSE jobNames

RECURSIVE ScheduleEach(_, _)
ScheduleEach(m, names) ==
  IF names = <<>> \/ m.thrown THEN m
  ELSE ScheduleEach(scheduleJob(m, Head(names), NoFirst), Tail(names))

startJobs(m, jobNames) == ScheduleEach(m, NamesOf(m, jobNames))

RECURSIVE StopEach(_, _)
StopEach(m, names) ==
  IF names = <<>> THEN m
  ELSE StopEach(stopJob(m, Head(names)), Tail(names))

\* stopJobs that stops nothing when jobNames is not given
stopJobs_noDefault(m, jobNames) ==
  StopEach(m, IF jobNames = Absent THEN <<>> ELSE jobNames)

stopJobs(m, jobNames) == StopEach(m, NamesOf(m, jobNames))

RECURSIVE ExecuteEach(_, _, _)
ExecuteEach(m, names, inputs) ==
  IF names = <<>> THEN m
  ELSE ExecuteEach(executeJob(m, Head(names), inputs), Tail(names), inputs)

\* the older call's promise is no longer followed
Forget(bag) == BagOfAll(LAMBDA e : [e EXCEPT !.awaited = FALSE], bag)

\* runJobs whose promise waits for every dispatch and then reports no failure
runJobs_allSettled(m, jobNames, inputs) ==
  LET m0 == IF scope.kept
              THEN [m EXCEPT !.awaited = TRUE, !.execs = Forget(@),
                             !.run = [state |-> "pending", failed |-> FALSE]]
              ELSE m
      m1 == ExecuteEach(m0, NamesOf(m, jobNames), inputs)
  IN [m1 EXCEPT !.run = Resolves([@ EXCEPT !.state = IF scope.kept
                                                        THEN "pending" ELSE @],
                                 m1.execs),
                !.given = inputs]

\* names.map(executeJob), then Promise.all
runJobs(m, jobNames, inputs) ==
  LET m0 == IF scope.kept
              THEN [m EXCEPT !.awaited = TRUE, !.execs = Forget(@),
                             !.run = [state |-> "pending", failed |-> FALSE]]
              ELSE m
      m1 == ExecuteEach(m0, NamesOf(m, jobNames), inputs)
  IN [m1 EXCEPT !.run = Resolves(@, m1.execs), !.given = inputs]

\* pauseJob that also stops the job's timer
pauseJob_stopsTimer(m, name) ==
  IF m.jobs[name].reg
    THEN [stopJob(m, name) EXCEPT !.jobs[name].paused = TRUE,
                                  !.ret = @ \cup {name}]
    ELSE m

pauseJob(m, name) ==
  IF m.jobs[name].reg
    THEN [m EXCEPT !.jobs[name].paused = TRUE, !.ret = @ \cup {name}]
    ELSE m

resumeJob(m, name) ==
  IF m.jobs[name].reg
    THEN [m EXCEPT !.jobs[name].paused = FALSE, !.ret = @ \cup {name}]
    ELSE m

\* -------------------------------------------------------------- loader.js
\* the schedule fields the normalized job keeps: interval, timeout, cron,
\* cronValidate and date; cronOptions is not among them
Normalized(sched) ==
  IF sched.kind = "cronCurrent" THEN [sched EXCEPT !.kind = "cron"] ELSE sched

\* jobDef is [name, sched, wo, inputs, scriptInputs]
addJobDefinition(m, jobDef) ==
  [m EXCEPT !.jobs[jobDef.name] =
              [reg |-> TRUE, sched |-> Normalized(jobDef.sched),
               paused |-> FALSE,
               wo |-> IF jobDef.wo = "unset" THEN ConfigWithoutOverlapping
                      ELSE jobDef.wo = "true",
               inputs |-> jobDef.inputs,
               scriptInputs |-> jobDef.scriptInputs],
            !.order = IF m.jobs[jobDef.name].reg THEN @
                      ELSE Append(@, jobDef.name)]

\* extractScriptInputDefaults(scriptDef.inputs) is the script's defaults
\* field.  A config entry is a jobDef with hasScriptInputs; a script file is
\* [file, quest, name, sched, wo, hasInputs, inputs, defaults], where quest
\* says that the module exports a quest block, name is quest.name ("" when
\* it is not given) and hasInputs that the quest block has an inputs key.
ScriptNamed(scripts, name) ==
  {i \in DOMAIN scripts : scripts[i].file = name}

\* the first loop of loadJobs: the entries of config.jobs
RECURSIVE LoadConfig(_, _, _, _)
LoadConfig(m, defs, configJobNames, scripts) ==
  IF defs = <<>> THEN m
  ELSE
    LET job == Head(defs)
        found == ScriptNamed(scripts, job.name)
        scriptDef == scripts[CHOOSE i \in found : TRUE]
        job1 == IF found # {} /\ ~job.hasScriptInputs
                  THEN [job EXCEPT !.scriptInputs = scriptDef.defaults]
                  ELSE job
    IN IF job.name \in configJobNames
         THEN [m EXCEPT !.thrown = TRUE]
         ELSE LoadConfig(addJobDefinition(m, job1), Tail(defs),
                         configJobNames \cup {job.name}, scripts)

\* the second loop of loadJobs: the scripts that export a quest block
RECURSIVE LoadScripts(_, _)
LoadScripts(m, scripts) ==
  IF scripts = <<>> THEN m
  ELSE
    LET scriptDef == Head(scripts)
        jobName == IF scriptDef.name # "" THEN scriptDef.name
                   ELSE scriptDef.file
        existingJob == m.jobs[jobName]
        jobDef ==
          [name |-> jobName,
           sched |-> scriptDef.sched,
           wo |-> IF scriptDef.wo # "unset" THEN scriptDef.wo
                  ELSE IF ~existingJob.reg THEN "unset"
                  ELSE IF existingJob.wo THEN "true" ELSE "false",
           inputs |-> IF scriptDef.hasInputs THEN scriptDef.inputs
                      ELSE Spread(existingJob.inputs, NoInputs),
           scriptInputs |-> scriptDef.defaults]
    IN IF ~scriptDef.quest THEN LoadScripts(m, Tail(scripts))
       ELSE LoadScripts(addJobDefinition(m, jobDef), Tail(scripts))

loadJobs(m, config, scripts) ==
  LET m1 == LoadConfig(m, config, {}, scripts)
  IN IF m1.thrown THEN m1 ELSE LoadScripts(m1, scripts)

\* removeJob that deletes the entry and leaves the handle armed
removeJob_noClear(m, name) ==
  [m EXCEPT !.jobs[name] = NoJob,
            !.order = SelectSeq(@, LAMBDA x : x # name),
            !.ret = IF m.jobs[name].reg THEN @ \cup {name} ELSE @]

\* removeJob that cancels the handle and keeps its entry in the timers Map
removeJob_keepsEntry(m, name) ==
  [m EXCEPT !.pending = clearTimeout(m, name),
            !.cleared = @ \cup Cleared(m, name),
            !.jobs[name] = NoJob,
            !.order = SelectSeq(@, LAMBDA x : x # name),
            !.ret = IF m.jobs[name].reg THEN @ \cup {name} ELSE @]

\* removeJob that also drops the name's record from the running Map
removeJob_dropsRunning(m, name) ==
  LET m1 == IF m.timers[name] # NoTimer
              THEN [m EXCEPT !.pending = clearTimeout(m, name),
                             !.cleared = @ \cup Cleared(m, name),
                             !.timers[name] = NoTimer]
              ELSE m
  IN [m1 EXCEPT !.jobs[name] = NoJob,
                !.order = SelectSeq(@, LAMBDA x : x # name),
                !.running[name] = FALSE,
                !.execs = Disown(@, name),
                !.ret = IF m.jobs[name].reg THEN @ \cup {name} ELSE @]

removeJob(m, name) ==
  LET m1 == IF m.timers[name] # NoTimer
              THEN [m EXCEPT !.pending = clearTimeout(m, name),
                             !.cleared = @ \cup Cleared(m, name),
                             !.timers[name] = NoTimer]
              ELSE m
  IN [m1 EXCEPT !.jobs[name] = NoJob,
                !.order = SelectSeq(@, LAMBDA x : x # name),
                !.ret = IF m.jobs[name].reg THEN @ \cup {name} ELSE @]

\* ----------------------------------------------------------------- state

InitState ==
  /\ hook = "constructed"
  /\ autoStart \in BOOLEAN
  /\ jobs = [n \in Names |-> NoJob]
  /\ order = <<>>
  /\ timers = [n \in Names |-> NoTimer]
  /\ pending = {}
  /\ running = [n \in Names |-> FALSE]
  /\ execs = EmptyBag
  /\ runCall = NoRun
  /\ now = 0
  /\ invocations = <<>>
  /\ last = [op |-> "init", names |-> {}, res |-> NoRes, ret |-> {},
             cleared |-> {}, thrown |-> FALSE, sink |-> NoRes,
             given |-> NoInputs, events |-> <<>>, job |-> NoJob.sched,
             nextRun |-> NotScheduled]

\* the step's effect on the Maps, the handle pool and the children
Commit(m) ==
  /\ ~m.full
  /\ jobs' = m.jobs
  /\ order' = m.order
  /\ timers' = m.timers
  /\ pending' = m.pending
  /\ running' = m.running
  /\ execs' = m.execs
  /\ runCall' = m.run
  /\ UNCHANGED <<scope, autoStart, now, invocations>>

Range(seq) == {seq[i] : i \in DOMAIN seq}

\* sails.quest is defined
Ready == hook = "initialized"

\* the callback of sails.after('hook:orm:loaded'): loadJobs, startJobs under
\* autoStart, then sails.quest is defined
initialize(m) ==
  LET m1 == loadJobs(m, scope.config, scope.scripts)
  IN IF ~m1.thrown /\ autoStart THEN startJobs(m1, Absent) ELSE m1

Initialize ==
  /\ hook = "constructed"
  /\ \E gone \in SUBSET scope.missing :
       LET m == initialize(Machine(gone))
       IN /\ Commit(m)
          /\ hook' = IF m.thrown THEN "failed" ELSE "initialized"
          /\ last' = [op |-> "initialize", names |-> Range(m.order),
                      res |-> m.res, ret |-> {}, cleared |-> m.cleared,
                      thrown |-> m.thrown, sink |-> m.sink,
                      given |-> m.given, events |-> m.events,
           job |-> NoJob.sched, nextRun |-> NotScheduled]

\* what the step was: the operation, the names it was applied to, and the
\* machine's outputs
Did(op, names, m) ==
  last' = [op |-> op, names |-> names, res |-> m.res, ret |-> m.ret,
           cleared |-> m.cleared, thrown |-> m.thrown, sink |-> m.sink,
           given |-> m.given, events |-> m.events,
           job |-> NoJob.sched, nextRun |-> NotScheduled]

\* a names argument: one name or a list of names
ArgLists ==
  {<<n>> : n \in scope.names}
    \cup {q \in {<<n1, n2>> : n1 \in scope.names, n2 \in scope.names} :
             q[1] # q[2]}

\* ------------------------------------------------- the sails.quest API

\* sails.quest.start(jobNames)
Start ==
  \E jobNames \in ArgLists \cup {Absent}, gone \in SUBSET scope.missing :
    LET m == startJobs(Machine(gone), jobNames)
    IN Ready /\ Commit(m) /\ Did("start", Range(NamesOf(m, jobNames)), m) /\ UNCHANGED hook

\* sails.quest.stop(jobNames)
Stop ==
  \E jobNames \in ArgLists \cup {Absent} :
    LET m == stopJobs(Machine({}), jobNames)
    IN Ready /\ Commit(m) /\ Did("stop", Range(NamesOf(m, jobNames)), m) /\ UNCHANGED hook

\* sails.quest.run(jobNames, inputs)
Run ==
  \E jobNames \in ArgLists \cup {Absent}, inputs \in scope.inputs,
     gone \in SUBSET scope.missing :
    LET m == runJobs(Machine(gone), jobNames, inputs)
    IN Ready /\ Commit(m) /\ Did("run", Range(NamesOf(m, jobNames)), m) /\ UNCHANGED hook

\* sails.quest.add(jobDef): addJobDefinition, then scheduleJob under autoStart
add(m, jobDef) ==
  LET m1 == [addJobDefinition(m, jobDef) EXCEPT !.ret = @ \cup {jobDef.name}]
  IN IF autoStart THEN scheduleJob(m1, jobDef.name, NoFirst) ELSE m1

\* the job definitions the API is called with
JobDefs ==
  [name : scope.names, sched : scope.scheds, wo : scope.wos,
   inputs : scope.inputs, scriptInputs : scope.inputs]

Add ==
  \E jobDef \in JobDefs, gone \in SUBSET scope.missing :
    LET m == add(Machine(gone), jobDef)
    IN Ready /\ Commit(m) /\ Did("add", {jobDef.name}, m) /\ UNCHANGED hook

\* sails.quest.remove(jobName)
Remove ==
  \E name \in scope.names :
    LET m == removeJob(Machine({}), name)
    IN Ready /\ Commit(m) /\ Did("remove", {name}, m) /\ UNCHANGED hook

\* sails.quest.pause(name)
Pause ==
  \E name \in scope.names :
    LET m == pauseJob(Machine({}), name)
    IN Ready /\ Commit(m) /\ Did("pause", {name}, m) /\ UNCHANGED hook

\* sails.quest.resume(name)
Resume ==
  \E name \in scope.names :
    LET m == resumeJob(Machine({}), name)
    IN Ready /\ Commit(m) /\ Did("resume", {name}, m) /\ UNCHANGED hook

\* ------------------------------------------------ the platform's callbacks

\* the callback of the intermediate timer: scheduleJob(name, context)
chainFired(m, p) ==
  scheduleJob(m, p.name,
              IF m.jobs[p.name].reg /\ m.jobs[p.name].sched = p.sched
                THEN p.first ELSE NoFirst)

\* a callback without the catch: a dispatch that rejects at once ends it
execFired_noCatch(m, p) ==
  LET m1 == executeJob(m, p.name, NoInputs)
  IN IF m1.res[p.name] # <<>> /\ m1.res[p.name][1] = "missing"
       THEN [m1 EXCEPT !.thrown = TRUE]
     ELSE IF Recurring(p.sched) /\ ~m1.full
       THEN scheduleJob(m1, p.name, NoFirst)
       ELSE m1

\* a callback that calls scheduleJob whatever the form of the schedule
execFired_alwaysRearms(m, p) ==
  LET m1 == executeJob(m, p.name, NoInputs)
  IN IF ~m1.full THEN scheduleJob(m1, p.name, NoFirst) ELSE m1

\* the callback of the execution timer: executeJob(name), whose rejection is
\* caught and logged, then scheduleJob when the job the callback closed over
\* is recurring
execFired(m, p) ==
  LET m1 == executeJob(m, p.name, NoInputs)
  IN IF Recurring(p.sched) /\ ~m1.full
       THEN scheduleJob(m1, p.name, NoFirst)
       ELSE m1

\* a setTimeout handle comes due and its callback runs; in the timers Map a
\* handle that has fired is Fired
TimerFire ==
  \E p \in pending, gone \in SUBSET scope.missing :
    /\ p.due <= now
    /\ LET m0 == [Machine(gone) EXCEPT
                   !.pending = @ \ {p},
                   !.timers[p.name] = IF @ = p.id THEN Fired ELSE @]
           m == IF p.kind = "chain" THEN chainFired(m0, p) ELSE execFired(m0, p)
       IN Commit(m) /\ Did("fire", {p.name}, m) /\ UNCHANGED hook

\* the promise of e's dispatch is settled by this event
Settles(e) == e.awaited /\ e.phase = "spawned"

\* the terminal events already emitted for the execution of child e
Terminals(e) == IF e.phase = "errored" THEN 1 ELSE 0

\* startTime = running.get(name); duration = Date.now() - startTime
ExitDuration(m, e) ==
  IF e.mine THEN "elapsed"
  ELSE IF m.running[e.name] THEN "elapsedOther"
  ELSE "NaN"

\* the event the 'exit' handler emits: 'complete' for code 0, else 'error'
ExitEvent(m, e, code) ==
  IF code = 0
    THEN CompleteEvent(e.name, Terminals(e) + 1, ExitDuration(m, e))
    ELSE ErrorEvent(e.name, Terminals(e) + 1, ExitDuration(m, e))

\* an 'exit' handler that leaves the record in the running Map
onExit_keepsRecord(m, e, code) ==
  [m EXCEPT !.execs = @ (-) SetToBag({e}),
            !.events = Emit(@, ExitEvent(m, e, code)),
            !.run = IF ~Settles(e) THEN @
                    ELSE IF code = 0 THEN Resolves(@, m.execs (-) SetToBag({e}))
                    ELSE Rejects(@)]

\* child.on('exit'): running.delete(name), then resolve or reject by the code
onExit(m, e, code) ==
  [m EXCEPT !.running[e.name] = FALSE,
            !.events = Emit(@, ExitEvent(m, e, code)),
            !.execs = Disown(@ (-) SetToBag({e}), e.name),
            !.run = IF ~Settles(e) THEN @
                    ELSE IF code = 0 THEN Resolves(@, m.execs (-) SetToBag({e}))
                    ELSE Rejects(@)]

\* child.on('error'): running.delete(name), reject; the child may still
\* deliver 'exit' afterwards (follow) or not
onError(m, e, follow) ==
  [m EXCEPT !.running[e.name] = FALSE,
            !.events =
              Emit(@, ErrorEvent(e.name, 1,
                                 IF e.mine THEN "elapsed"
                                 ELSE IF m.running[e.name]
                                   THEN "elapsedOther"
                                 ELSE "zero")),
            !.run = IF Settles(e) THEN Rejects(@) ELSE @,
            !.execs = Disown(IF follow
                               THEN (@ (-) SetToBag({e}))
                                      (+) SetToBag({[e EXCEPT !.phase = "errored"]})
                               ELSE @ (-) SetToBag({e}),
                             e.name)]

ChildExit ==
  \E e \in BagToSet(execs), code \in {0, 1} :
    LET m == onExit(Machine({}), e, code)
    IN /\ Commit(m)
       /\ Did(IF code = 0 THEN "exit0" ELSE "exit1", {e.name}, m)
       /\ UNCHANGED hook

ChildError ==
  \E e \in BagToSet(execs), follow \in BOOLEAN :
    /\ e.phase = "spawned"
    /\ LET m == onError(Machine({}), e, follow)
       IN Commit(m) /\ Did("error", {e.name}, m) /\ UNCHANGED hook

\* time passes; a handle that is due fires before the clock moves on
Tick ==
  /\ now < MaxTime /\ now < scope.horizon
  /\ \A p \in pending : p.due > now
  /\ now' = now + 1
  /\ last' = [op |-> "tick", names |-> {}, res |-> NoRes, ret |-> {},
              cleared |-> {}, thrown |-> FALSE, sink |-> NoRes,
             given |-> NoInputs, events |-> <<>>, job |-> NoJob.sched,
             nextRun |-> NotScheduled]
  /\ UNCHANGED <<scope, hook, autoStart, jobs, order, timers, pending, running,
                 execs, runCall, invocations>>

Next ==
  \/ Initialize
  \/ Start
  \/ Stop
  \/ Run
  \/ Add
  \/ Remove
  \/ Pause
  \/ Resume
  \/ TimerFire
  \/ ChildExit
  \/ ChildError
  \/ Tick

\* one job name, every schedule form
Init == InitState /\ scope = [names |-> {"a"}, scheds |-> Scheds, wos |-> WoGiven,
                            missing |-> {"a"}, horizon |-> MaxTime,
                            children |-> MaxInflight, inputs |-> {NoInputs},
                            config |-> <<>>, scripts |-> <<>>,
       kept |-> FALSE, sails |-> FALSE]

Spec == Init /\ [][Next]_vars

\* two job names; a conflicting descriptor, a recurring and a one-shot one
TwoScheds ==
  { [kind |-> "dateTimeout", val |-> 1],
    [kind |-> "interval", val |-> 1] }

InitTwo == InitState /\ scope = [names |-> {"a", "b"}, scheds |-> TwoScheds,
                               wos |-> {"unset"}, missing |-> {"a"}, horizon |-> TwoHorizon,
                               children |-> TwoChildren,
                               inputs |-> {NoInputs},
                               config |-> <<>>, scripts |-> <<>>,
       kept |-> FALSE, sails |-> FALSE]

SpecTwo == InitTwo /\ [][Next]_vars

\* a job that recurs at every instant of the clock
Every == [kind |-> "interval", val |-> 1]

\* two job names; the caller of run() keeps the promise it returns
InitRun ==
  /\ InitState /\ ~autoStart
  /\ scope = [names |-> {"a", "b"}, scheds |-> {Every}, wos |-> {"true"},
              missing |-> {"a"}, horizon |-> RunHorizon,
              children |-> MaxInflight, inputs |-> {NoInputs},
              config |-> <<>>, scripts |-> <<>>, kept |-> TRUE, sails |-> FALSE]

\* the calls and callbacks that dispatch, settle or skip the executions of a
\* run() call; no timer is armed
NextRun ==
  \/ Initialize
  \/ Run
  \/ Add
  \/ Remove
  \/ Pause
  \/ Resume
  \/ ChildExit
  \/ ChildError
  \/ Tick

SpecRun == InitRun /\ [][NextRun]_vars

\* one job name; one-shot schedules that are due at once, after one timer or
\* after a chain of two, and a recurring one
ShotScheds ==
  { [kind |-> "timeout", val |-> 0],
    [kind |-> "timeout", val |-> MAX_SAFE_TIMEOUT],
    [kind |-> "date", val |-> MAX_SAFE_TIMEOUT + 1],
    [kind |-> "none", val |-> 0],
    Every }

InitShot ==
  /\ InitState
  /\ scope = [names |-> {"a"}, scheds |-> ShotScheds,
              wos |-> {"true", "false"}, missing |-> {"a"},
              horizon |-> ShotHorizon, children |-> TwoChildren,
              inputs |-> {NoInputs}, config |-> <<>>, scripts |-> <<>>,
              kept |-> FALSE, sails |-> FALSE]

SpecShot == InitShot /\ [][Next]_vars

\* one job name; schedules whose next run is not after now (a timeout of 0,
\* a numeric interval of 0 and a negative numeric interval) and a recurring
\* one that is
CatchScheds ==
  { [kind |-> "timeout", val |-> 0],
    [kind |-> "interval", val |-> 0],
    [kind |-> "interval", val |-> 0 - 1],
    Every }

InitCatch ==
  /\ InitState
  /\ scope = [names |-> {"a"}, scheds |-> CatchScheds,
              wos |-> {"true", "false"}, missing |-> {"a"},
              horizon |-> CatchHorizon, children |-> MaxInflight,
              inputs |-> {NoInputs}, config |-> <<>>, scripts |-> <<>>,
              kept |-> FALSE, sails |-> FALSE]

SpecCatch == InitCatch /\ [][Next]_vars

\* one job name whose executions overlap or not, in an application that
\* exposes the global variable sails: the executor emits its events
EventScheds == {Every, [kind |-> "timeout", val |-> 0]}

InitEvents ==
  /\ InitState
  /\ scope = [names |-> {"a"}, scheds |-> EventScheds,
              wos |-> {"true", "false"}, missing |-> {"a"},
              horizon |-> EventsHorizon, children |-> MaxInflight,
              inputs |-> {NoInputs}, config |-> <<>>, scripts |-> <<>>,
              kept |-> FALSE, sails |-> TRUE]

SpecEvents == InitEvents /\ [][Next]_vars

\* two job names that recur at every instant, with room for an execution of
\* each in flight at once
InitFrame ==
  /\ InitState /\ autoStart
  /\ scope = [names |-> {"a", "b"}, scheds |-> {Every}, wos |-> {"true"},
              missing |-> {}, horizon |-> FrameHorizon,
              children |-> MaxInflight, inputs |-> {NoInputs},
              config |-> <<>>, scripts |-> <<>>, kept |-> FALSE,
              sails |-> FALSE]

SpecFrame == InitFrame /\ [][Next]_vars

\* getNextRunTime called on its own, with every form of schedule
ParserScheds ==
  {sched \in [kind : {"none", "cron", "cronCurrent", "badcron", "interval",
                      "text", "timeout", "date", "dateTimeout"},
              val : 0..MaxTime] :
     sched.kind \in {"cron", "cronCurrent"} => sched.val >= 1}

\* scheduler.getNextRunTime(job) at the present instant
GetNextRunTime ==
  \E sched \in scope.scheds :
    /\ last' = [op |-> "getNextRunTime", names |-> {}, res |-> NoRes,
                ret |-> {}, cleared |-> {}, thrown |-> FALSE, sink |-> NoRes,
                given |-> NoInputs, events |-> <<>>, job |-> sched,
                nextRun |-> getNextRunTime(sched, now)]
    /\ UNCHANGED <<scope, hook, autoStart, jobs, order, timers, pending,
                   running, execs, runCall, now, invocations>>

NextParser ==
  \/ GetNextRunTime
  \/ Tick

InitParser ==
  /\ InitState
  /\ scope = [names |-> {}, scheds |-> ParserScheds, wos |-> {},
              missing |-> {}, horizon |-> MaxTime,
              children |-> MaxInflight, inputs |-> {NoInputs},
              config |-> <<>>, scripts |-> <<>>, kept |-> FALSE, sails |-> FALSE]

SpecParser == InitParser /\ [][NextParser]_vars

\* the objects of inputs with x absent, 0 or 1 and y absent or 2
SomeLayers == {l \in Layers : l["x"] \in {Undef, 0, 1} /\ l["y"] \in {Undef, 2}}

\* one job name; jobs and run() calls are given inputs
InitInputs ==
  /\ InitState
  /\ scope = [names |-> {"a"}, scheds |-> {Every}, wos |-> {"false"},
              missing |-> {}, horizon |-> InputsHorizon,
              children |-> TwoChildren, inputs |-> SomeLayers,
              config |-> <<>>, scripts |-> <<>>, kept |-> FALSE, sails |-> FALSE]

SpecInputs == InitInputs /\ [][Next]_vars

\* a hook that loads a config list and a scripts directory
ConfigEntry(name) ==
  [name |-> name, sched |-> Every, wo |-> "unset", inputs |-> NoInputs,
   scriptInputs |-> NoInputs, hasScriptInputs |-> FALSE]

ScriptFile(file) ==
  [file |-> file, quest |-> TRUE, name |-> "", sched |-> Every,
   wo |-> "unset", hasInputs |-> FALSE, inputs |-> NoInputs,
   defaults |-> NoInputs]

ConfigLists ==
  UNION {[1..n -> {ConfigEntry(x) : x \in Names}] : n \in 0..MaxConfig}

\* a script file whose quest block names its job
NamedScript(file, name) == [ScriptFile(file) EXCEPT !.name = name]

\* scripts directories: empty, one file b.js, one file b.js whose quest.name
\* is "a", and two files that both give quest.name "a"
ScriptDirs ==
  { <<>>,
    <<ScriptFile("b")>>,
    <<NamedScript("b", "a")>>,
    <<NamedScript("a", "a"), NamedScript("b", "a")>> }

InitLoad ==
  /\ InitState
  /\ scope \in [names : {{"a"}}, scheds : {{Every}}, wos : {{"unset"}},
                 missing : {{}}, horizon : {LoadHorizon},
                 children : {TwoChildren}, inputs : {{NoInputs}},
                 config : ConfigLists, scripts : ScriptDirs,
                 kept : {FALSE}, sails : {FALSE}]

SpecLoad == InitLoad /\ [][Next]_vars

\* a hook that loads one config entry for job a that carries inputs, and a
\* script a.js whose quest block has no inputs key or one of the objects
MergeConfigs ==
  {<<[ConfigEntry("a") EXCEPT !.inputs = l]>> : l \in SomeLayers}

MergeScripts ==
  {<<ScriptFile("a")>>}
    \cup {<<[ScriptFile("a") EXCEPT !.hasInputs = TRUE, !.inputs = l]>> :
            l \in SomeLayers}

InitMerge ==
  /\ InitState
  /\ scope \in [names : {{"a"}}, scheds : {{Every}}, wos : {{"unset"}},
                 missing : {{}}, horizon : {MergeHorizon},
                 children : {TwoChildren}, inputs : {{NoInputs}},
                 config : MergeConfigs, scripts : MergeScripts,
                 kept : {FALSE}, sails : {FALSE}]

SpecMerge == InitMerge /\ [][Next]_vars

\* ------------------------------------------------------- machine-as-job
\* A machine definition: whether it has an onSuccess and an onError callback
\* and the custom exits it declares.  A call of the function machineAsJob
\* returns is [def, at, events, exit]: at is where the async function stands
\* ("exec": awaiting the machine's exit, "onSuccess" and "onError": awaiting
\* the callback, "returned", "thrown"), events are the events it emitted.
MachineDefs ==
  [onSuccess : BOOLEAN, onError : BOOLEAN, exits : {{}, {"partial"}}]

\* the catch block: emit the error event, then call onError when it is
\* defined, then re-throw
machineAsJob_catch(c) ==
  [c EXCEPT !.events = Append(@, "quest:job:error"),
            !.at = IF c.def.onError THEN "onError" ELSE "thrown"]

\* what follows the await of the machine: the success exit and the custom
\* exits resolve the promise, the error exit rejects it
machineAsJob_exited(c, exit) ==
  IF exit = "error" THEN machineAsJob_catch(c)
  ELSE [c EXCEPT !.events = Append(@, "quest:job:complete"),
                 !.exit = exit,
                 !.at = IF c.def.onSuccess /\ exit = "success"
                          THEN "onSuccess" ELSE "returned"]

\* a call of the function: the started event, then the machine is executed
MachineJob ==
  /\ Len(invocations) < MaxCalls
  /\ \E machineDef \in MachineDefs :
       invocations' = Append(invocations,
                             [def |-> machineDef, at |-> "exec",
                              events |-> <<"quest:job:started">>,
                              exit |-> ""])
  /\ UNCHANGED <<scope, hook, autoStart, jobs, order, timers, pending,
                 running, execs, runCall, now, last>>

\* the machine triggers one of its exits (or the building or the execution
\* of the machine instance throws, which ends in the catch block as well)
MachineExit ==
  /\ \E i \in DOMAIN invocations :
       /\ invocations[i].at = "exec"
       /\ \E exit \in {"success", "error"} \cup invocations[i].def.exits :
            invocations' =
              [invocations EXCEPT ![i] = machineAsJob_exited(@, exit)]
  /\ UNCHANGED <<scope, hook, autoStart, jobs, order, timers, pending,
                 running, execs, runCall, now, last>>

\* machineDef.onSuccess settles: the function returns the result, or the
\* callback's error is caught by the catch block
OnSuccess ==
  /\ \E i \in DOMAIN invocations : \E threw \in BOOLEAN :
       /\ invocations[i].at = "onSuccess"
       /\ invocations' =
            [invocations EXCEPT
               ![i] = IF threw THEN machineAsJob_catch(@)
                      ELSE [@ EXCEPT !.at = "returned"]]
  /\ UNCHANGED <<scope, hook, autoStart, jobs, order, timers, pending,
                 running, execs, runCall, now, last>>

\* machineDef.onError settles: the function throws, the caught error or the
\* callback's own
OnError ==
  /\ \E i \in DOMAIN invocations :
       /\ invocations[i].at = "onError"
       /\ invocations' = [invocations EXCEPT ![i].at = "thrown"]
  /\ UNCHANGED <<scope, hook, autoStart, jobs, order, timers, pending,
                 running, execs, runCall, now, last>>

NextMachine ==
  \/ MachineJob
  \/ MachineExit
  \/ OnSuccess
  \/ OnError

\* machine job functions called on their own
InitMachine ==
  /\ InitState
  /\ scope = [names |-> {}, scheds |-> {}, wos |-> {}, missing |-> {},
              horizon |-> 0, children |-> 0, inputs |-> {NoInputs},
              config |-> <<>>, scripts |-> <<>>, kept |-> FALSE,
              sails |-> TRUE]

SpecMachine == InitMachine /\ [][NextMachine]_vars

\* ================================================================ claims

\* the armed handles of a name, and its executions in flight
LiveTimers(n) == {p \in pending : p.name = n}

InFlight(n) ==
  BagCardinality([e \in {x \in BagToSet(execs) :
                           x.name = n /\ x.phase = "spawned"} |-> execs[e]])

\* the last step dispatched n: executeJob(n) was called; Outcome(n) is what
\* its first dispatch of n returned or did
Dispatched(n) == last.res[n] # <<>>

Outcome(n) == last.res[n][1]

Started(n) == \E i \in DOMAIN last.res[n] : last.res[n][i] = "started"

\* C1 (as claimed): when a dispatch on a job registered with
\* withoutOverlapping = true starts an execution, no other execution of that
\* name is in flight: of two dispatches that have not settled, one is skipped.
C1_OneProceeds ==
  \A n \in Names :
    (jobs[n].reg /\ jobs[n].wo /\ Started(n)) => InFlight(n) = 1

\* C2 (as claimed): every dispatch on a paused job returns reason 'paused'.
C2_AlwaysPausedReason ==
  \A n \in Names :
    (jobs[n].reg /\ jobs[n].paused) =>
      \A i \in DOMAIN last.res[n] : last.res[n][i] = "paused"

\* C2 (amended), the paused part: a dispatch on a paused job starts nothing;
\* it returns 'paused', or 'already_running' when the job has
\* withoutOverlapping = true and a record in the running table.
C2_PausedNeverStarts ==
  \A n \in Names :
    (jobs[n].reg /\ jobs[n].paused) =>
      \A i \in DOMAIN last.res[n] :
        /\ last.res[n][i] \in {"paused", "already_running"}
        /\ last.res[n][i] = "already_running" => (jobs[n].wo /\ running[n])

\* C2 (amended), the resume part: a dispatch on a registered job that is not
\* paused and has no execution in flight starts an execution.
C2_ResumedStarts ==
  \A n \in Names :
    (Dispatched(n)' /\ jobs'[n].reg /\ ~jobs'[n].paused /\ InFlight(n) = 0) =>
      Outcome(n)' \in {"started", "missing"}

\* C2 (amended): while a job is paused no trigger starts an execution of it,
\* each dispatch being skipped with reason 'paused' or, for a job in the
\* running table with withoutOverlapping = true, 'already_running'; once
\* resumed, the next trigger of the job when it is not in flight starts one.
C2_Paused == []C2_PausedNeverStarts /\ [][C2_ResumedStarts]_vars

\* C2 witness: a timer fired on a paused job and the dispatch was skipped
C2_Witness ==
  \E n \in Names :
    /\ jobs[n].reg /\ jobs[n].paused
    /\ last.op = "fire" /\ Dispatched(n) /\ Outcome(n) = "paused"

\* C3: every job name has at most one armed handle, and it is the one the
\* timers Map holds.
C3_OneLiveTimer ==
  \A n \in Names :
    /\ Cardinality(LiveTimers(n)) <= 1
    /\ \A p \in LiveTimers(n) : timers[n] = p.id

\* C3 witness: scheduleJob on a name that had an armed handle: the handle was
\* cleared and one handle is armed
C3_Witness ==
  \E n \in Names :
    last.op = "start" /\ n \in last.cleared /\ Cardinality(LiveTimers(n)) = 1

\* C4 (as claimed): a job whose delay exceeds the timer bound fires at its
\* target instant: while the job keeps the schedule its timer was armed for,
\* the clock never passes the target instant of the chain with a handle of
\* the chain still armed.
C4_FiresAtTarget ==
  \A p \in pending :
    (jobs[p.name].reg /\ jobs[p.name].sched = p.sched) => now <= p.first

C6_RecordIffInFlight ==
  \A n \in Names : running[n] <=> InFlight(n) >= 1

\* C7, the state part: a name that is not registered has no armed handle.
C7_NoTimerUnregistered ==
  \A n \in Names : ~jobs[n].reg => LiveTimers(n) = {}

\* C7, the step part: remove(name) deletes the entry, leaves no armed handle
\* of the name, and returns the name exactly when it was registered.
C7_RemoveStep ==
  last'.op = "remove" =>
    \A n \in last'.names :
      /\ ~jobs'[n].reg
      /\ LiveTimers(n)' = {}
      /\ n \in last'.ret <=> jobs[n].reg

\* C7: after remove(name) the name has no armed handle, so no scheduled
\* firing, until it is added again; remove returns the name iff registered.
C7_Remove == []C7_NoTimerUnregistered /\ [][C7_RemoveStep]_vars

\* C7 witness: remove of a registered name cancelled its armed handle
C7_Witness ==
  \E n \in Names :
    last.op = "remove" /\ n \in last.ret /\ n \in last.cleared

\* the Maps, the handle pool and the children
core == <<jobs, order, timers, pending, running, execs>>

\* C8, the step part: stop leaves none of its names with an armed handle; a
\* name without an armed handle gets one only from start or add on that name;
\* a second stop of the same names right after the first changes nothing.
C8_StopStep ==
  /\ last'.op = "stop" => \A n \in last'.names : LiveTimers(n)' = {}
  /\ \A n \in Names :
       (LiveTimers(n) = {} /\ LiveTimers(n)' # {}) =>
         (last'.op \in {"start", "add"} /\ n \in last'.names)
  /\ (last.op = "stop" /\ last'.op = "stop" /\ last'.names = last.names) =>
       UNCHANGED core

\* C8: after stop(names) and until the next start or add of a name, the name
\* has no armed handle, hence no scheduled execution; stop is idempotent.
C8_Stop == [][C8_StopStep]_vars

\* C8 witness: stop cancelled an armed handle
C8_Witness ==
  \E n \in Names :
    last.op = "stop" /\ n \in last.cleared /\ LiveTimers(n) = {}

\* C9: stop and remove leave the running table and the children in flight
\* as they were.
C9_InFlightUntouched ==
  [][last'.op \in {"stop", "remove"} => UNCHANGED <<running, execs>>]_vars

\* C9 witness: a job was removed while an execution of it was in flight
C9_Witness ==
  \E n \in Names :
    last.op = "remove" /\ n \in last.ret /\ running[n] /\ InFlight(n) = 1

\* C10 (as claimed): add() on a name that has an armed handle cancels it.
C10_AddCancels ==
  [][last'.op = "add" =>
       \A n \in last'.names : LiveTimers(n) # {} => n \in last'.cleared]_vars

\* C11 (as claimed): after start(names), every listed name that is registered
\* with a schedule whose next run lies ahead has an armed handle, whatever
\* happened to the names listed before it.
C11_StartSchedulesAll ==
  last.op = "start" =>
    \A n \in last.names :
      LET nextRun == getNextRunTime(jobs[n].sched, now)
      IN (jobs[n].reg /\ ~nextRun.throws /\ nextRun.ok /\ nextRun.t > now)
           => LiveTimers(n) # {}

\* the names a load is given: those of the config list and of the script
\* files that export a quest block
Declared ==
  {scope.config[i].name : i \in DOMAIN scope.config}
    \cup {IF scope.scripts[i].name # "" THEN scope.scripts[i].name
          ELSE scope.scripts[i].file :
            i \in {j \in DOMAIN scope.scripts : scope.scripts[j].quest}}

\* C12 (as claimed): after the load, every name of the config list and every
\* script job is registered, also when the list names a job twice.
C12_LoadRegistersOthers ==
  last.op = "initialize" => \A n \in Declared : jobs[n].reg

\* C13, a firing whose dispatch fails at once (the script is missing): the
\* handles and timer entries of the other names are as before; the callback
\* throws only when the parser rejects the job's schedule; and a job that is
\* still registered with the recurring schedule of the fired handle has a
\* handle armed again.
C13_FailedFiring ==
  \A n \in Names :
    (last'.op = "fire" /\ n \in last'.names /\ Dispatched(n)'
       /\ Outcome(n)' = "missing") =>
      /\ \A o \in Names \ {n} :
           LiveTimers(o)' = LiveTimers(o) /\ timers'[o] = timers[o]
      /\ last'.thrown => getNextRunTime(jobs[n].sched, now).throws
      /\ \A p \in LiveTimers(n) \ pending' :
           (jobs[n].reg /\ jobs[n].sched = p.sched /\ Recurring(p.sched))
             => LiveTimers(n)' # {}

\* C13, a failure that arrives later (non-zero exit, spawn error): the step
\* throws nothing and leaves every handle and timer entry as it was.
C13_FailedSettlement ==
  last'.op \in {"exit1", "error"} =>
    (~last'.thrown /\ UNCHANGED <<timers, pending>>)

\* C13: a failed scheduled execution never leaves the timer-firing path: the
\* other jobs' timers stay armed and a recurring job is armed again.
C13_FailureContained == [][C13_FailedFiring /\ C13_FailedSettlement]_vars

\* C13 witness: the timer of a recurring job fired, its script was missing,
\* and both it and the other job have a handle armed
C13_Witness ==
  \E n \in Names, o \in Names :
    /\ n # o /\ last.op = "fire" /\ n \in last.names
    /\ Dispatched(n) /\ Outcome(n) = "missing" /\ ~last.thrown
    /\ LiveTimers(n) # {} /\ LiveTimers(o) # {}

\* C14: the promise of a run() call is rejected exactly when an execution it
\* dispatched has failed (missing script, non-zero exit, spawn error); a call
\* whose dispatches are all skipped is fulfilled with the skip results.
C14_RejectsIffFailed ==
  /\ runCall.state = "rejected" <=> runCall.failed
  /\ (last.op = "run"
        /\ \A n \in last.names :
             Outcome(n) \in {"already_running", "paused"})
       => runCall.state = "fulfilled"

\* C14 witness: a run of two names, one skipped and one whose script is
\* missing; the call is rejected
C14_Witness ==
  \E n \in Names, o \in Names :
    /\ last.op = "run" /\ last.names = {n, o}
    /\ Outcome(n) \in {"already_running", "paused"}
    /\ Outcome(o) = "missing"
    /\ runCall.state = "rejected"

\* C15: the inputs handed to a child are, key by key, the caller's custom
\* value if it gives one, else the job's scriptInputs value if it has one,
\* else the job's inputs value, and no value when no layer has the key.
C15_MergedInputs ==
  \A n \in Names :
    \A i \in DOMAIN last.sink[n] :
      LET job == IF jobs[n].reg THEN jobs[n] ELSE minimalJob
      IN \A k \in Keys :
           last.sink[n][i][k] =
             IF last.given[k] # Undef THEN last.given[k]
             ELSE IF job.scriptInputs[k] # Undef THEN job.scriptInputs[k]
             ELSE job.inputs[k]

\* C15 witness: run(name, {x: 1}) on a job with inputs {x: 0, y: 2} hands
\* {x: 1, y: 2} to the child
C15_Witness ==
  \E n \in Names :
    /\ last.op = "run" /\ jobs[n].reg
    /\ jobs[n].inputs = [k \in Keys |-> IF k = "x" THEN 0 ELSE 2]
    /\ jobs[n].scriptInputs = NoInputs
    /\ last.given = [k \in Keys |-> IF k = "x" THEN 1 ELSE Undef]
    /\ last.sink[n] = <<[k \in Keys |-> IF k = "x" THEN 1 ELSE 2]>>

\* a schedule of the timeout or date form
OneShot(sched) == sched.kind \in {"timeout", "date"}

\* C16 (as claimed): the step in which a recurring job's timer fires and
\* starts an execution arms no handle for the job: the job is armed again
\* only once that execution has settled.
C16_RearmAfterSettle ==
  [][\A n \in Names :
       (last'.op = "fire" /\ n \in last'.names /\ Started(n)')
         => LiveTimers(n)' \subseteq LiveTimers(n)]_vars

\* C17, the firing: when the execution timer of a one-shot schedule fires,
\* the job is dispatched once, no handle is armed for it and its entry in
\* the registry is as before.
C17_OneShotFiring ==
  \A n \in Names :
    \A p \in LiveTimers(n) \ pending' :
      (last'.op = "fire" /\ p.kind = "exec" /\ OneShot(p.sched)) =>
        /\ Len(last'.res[n]) = 1
        /\ LiveTimers(n)' = {}
        /\ jobs'[n] = jobs[n]

\* C17, the calls of scheduleJob: a one-shot job is dispatched at most once
\* by start, add or the hook's initialization, and when it is dispatched no
\* handle is armed for it.
C17_OneShotCall ==
  \A n \in Names :
    (last'.op \in {"start", "add", "initialize"} /\ n \in last'.names
       /\ jobs'[n].reg /\ OneShot(jobs'[n].sched)) =>
      /\ Len(last'.res[n]) <= 1
      /\ Dispatched(n)' => LiveTimers(n)' = {}

\* C17: a one-shot job is dispatched at most once per scheduleJob call, is
\* not armed again after it fired, and stays registered.
C17_OneShot == [][C17_OneShotFiring /\ C17_OneShotCall]_vars

\* C17 witness: the timer of a registered timeout job fired and started an
\* execution; no handle is armed for the job
C17_Witness ==
  \E n \in Names :
    /\ last.op = "fire" /\ Started(n)
    /\ jobs[n].reg /\ jobs[n].sched.kind = "timeout"
    /\ LiveTimers(n) = {}

\* the parser gives the job of n no next-run instant at this time
Unscheduled(n) ==
  LET nextRun == getNextRunTime(jobs[n].sched, now)
  IN jobs[n].reg /\ ~nextRun.ok /\ ~nextRun.throws

\* C18, the calls of scheduleJob: a call on a job the parser gives no instant
\* for (a date at or before now, no schedule field) leaves it without a timer
\* entry and without an armed handle, dispatches nothing, and keeps it
\* registered.
C18_NoInstantNoTimer ==
  \A n \in Names :
    (/\ last'.op \in {"start", "initialize"} \/ (last'.op = "add" /\ autoStart)
     /\ n \in last'.names /\ ~last'.thrown /\ Unscheduled(n)') =>
      /\ LiveTimers(n)' = {} /\ timers'[n] = NoTimer
      /\ ~Dispatched(n)'
      /\ jobs'[n].reg

\* C18, the manual run: run() on such a job, when it is not paused and not
\* in flight, dispatches it.
C18_StillRuns ==
  \A n \in Names :
    (last'.op = "run" /\ n \in last'.names /\ Unscheduled(n)
       /\ ~jobs[n].paused /\ InFlight(n) = 0) =>
      Outcome(n)' \in {"started", "missing"}

\* C18: scheduleJob arms nothing and starts nothing for a job whose date is
\* not after now or that has no next-run instant; the job stays registered
\* and can be run manually.
C18_NotScheduled == [][C18_NoInstantNoTimer /\ C18_StillRuns]_vars

\* C18 witness: start() on a job whose date has been reached cleared its
\* handle and armed none
C18_Witness ==
  \E n \in Names :
    /\ last.op = "start" /\ n \in last.names /\ n \in last.cleared
    /\ jobs[n].reg /\ jobs[n].sched.kind = "date" /\ jobs[n].sched.val <= now
    /\ LiveTimers(n) = {} /\ ~Dispatched(n)

\* C19 (as claimed): whenever getNextRunTime is called on a job with a valid
\* cron expression, with or without cronOptions, the instant it returns is
\* after the instant of the call.
C19_CronAfterNow ==
  (last.op = "getNextRunTime" /\ last.job.kind \in {"cron", "cronCurrent"})
    => (last.nextRun.ok /\ last.nextRun.t > now)

\* C20, the calls: pause(name) and resume(name) leave the timers, the handles,
\* the running table, the children and every other job as they were; on a
\* registered name they set the paused flag and return true, on another name
\* they change nothing and return false.
C20_PauseResumeStep ==
  last'.op \in {"pause", "resume"} =>
    \A n \in last'.names :
      /\ UNCHANGED <<timers, pending, running, execs, order, runCall>>
      /\ \A o \in Names \ {n} : jobs'[o] = jobs[o]
      /\ jobs'[n] = IF jobs[n].reg
                       THEN [jobs[n] EXCEPT !.paused = (last'.op = "pause")]
                       ELSE jobs[n]
      /\ n \in last'.ret <=> jobs[n].reg

\* C20, the timer of a paused job: when the execution timer of a paused
\* recurring job fires, the dispatch is skipped and the job is armed again.
C20_PausedKeepsTimer ==
  \A n \in Names :
    \A p \in LiveTimers(n) \ pending' :
      (last'.op = "fire" /\ p.kind = "exec" /\ Recurring(p.sched)
         /\ jobs[n].reg /\ jobs[n].paused /\ jobs[n].sched = p.sched) =>
        (~Started(n)' /\ LiveTimers(n)' # {})

\* C20: pause and resume change only the paused flag of their job and return
\* whether the name is registered; the job's timer stays armed and keeps
\* being armed again.
C20_PauseResume == [][C20_PauseResumeStep /\ C20_PausedKeepsTimer]_vars

\* C20 witness: a job with an armed handle was paused while another job had
\* an armed handle too; both handles are still armed
C20_Witness ==
  \E n \in Names, o \in Names :
    /\ n # o /\ last.op = "pause" /\ n \in last.ret
    /\ jobs[n].paused /\ LiveTimers(n) # {} /\ LiveTimers(o) # {}

\* the events the last step emitted for name n, and the terminal ones
EventsOf(n) == SelectSeq(last.events, LAMBDA ev : ev.name = n)

Terminal(ev) == ev.type \in {"complete", "error"}

\* the dispatches of n in the last step that went past the skip tests
Executions(n) ==
  SelectSeq(last.res[n], LAMBDA r : r \in {"started", "missing"})

\* C21 (as claimed): for each job name, every execution that starts emits
\* one 'start' event, before its terminal event; every terminal event is the
\* only one of its execution ('complete' or 'error', never both, never two of
\* a kind); a skipped dispatch emits nothing.
C21_Lifecycle ==
  \A n \in Names :
    /\ Len(SelectSeq(EventsOf(n), LAMBDA ev : ev.type = "start"))
         = Len(Executions(n))
    /\ \A i \in DOMAIN EventsOf(n) :
         Terminal(EventsOf(n)[i]) =>
           /\ EventsOf(n)[i].nth = 1
           /\ Executions(n) # <<>> =>
                (i > 1 /\ EventsOf(n)[i - 1].type = "start")
    /\ (Executions(n) = <<>> /\ last.op \notin {"exit0", "exit1", "error"})
         => EventsOf(n) = <<>>

\* the declarations of name n a load is given: entries of the config list and
\* script files whose quest block resolves to n
Declarations(n) ==
  Cardinality({i \in DOMAIN scope.config : scope.config[i].name = n})
    + Cardinality({i \in DOMAIN scope.scripts :
                     /\ scope.scripts[i].quest
                     /\ n = IF scope.scripts[i].name # ""
                              THEN scope.scripts[i].name
                              ELSE scope.scripts[i].file})

\* C22 (as claimed): a load that is given two declarations of one job name,
\* from the config list, from a script's quest.name or from both, fails with
\* an error; it never goes on to replace the descriptor it loaded first.
C22_DuplicateIsError ==
  (last.op = "initialize" /\ \E n \in Names : Declarations(n) >= 2)
    => last.thrown

\* C23 (as claimed): when an intermediate timer of a chain fires for a job that
\* still has the schedule the timer was armed for, the handle armed in its
\* place aims at the same target instant, for every form of schedule.
C23_TargetFixed ==
  [][\A n \in Names :
       \A p \in LiveTimers(n) \ pending' :
         (last'.op = "fire" /\ p.kind = "chain"
            /\ jobs[n].reg /\ jobs[n].sched = p.sched) =>
           \A q \in LiveTimers(n)' : q.target = p.target]_vars

\* C24: every handle a step arms is due after a delay d with
\* 0 < d <= MAX_SAFE_TIMEOUT, counted from the instant of the step: no delay
\* above the bound reaches setTimeout, and no timer is armed for a delay of
\* zero or less.
C24_DelayInRange ==
  [][\A p \in pending' \ pending :
       /\ p.due - now > 0
       /\ p.due - now <= MAX_SAFE_TIMEOUT]_vars

\* C24 witness: add() armed a handle for a job whose next run is further away
\* than the bound; the handle is due after exactly the bound
C24_Witness ==
  \E n \in Names :
    /\ last.op = "add" /\ n \in last.names
    /\ \E p \in LiveTimers(n) :
         /\ p.target - now > MAX_SAFE_TIMEOUT
         /\ p.due - now = MAX_SAFE_TIMEOUT

\* the next-run instant of n's job is at or before now
Behind(n) ==
  LET nextRun == getNextRunTime(jobs[n].sched, now)
  IN nextRun.ok /\ nextRun.t <= now

\* the last step called scheduleJob(n) from start() or add()
Scheduled(n) ==
  /\ n \in last.names
  /\ last.op = "start" \/ (last.op = "add" /\ autoStart)

C26_Terminates ==
  (last.op \in {"initialize", "start", "add", "fire"} /\ last.thrown) =>
    \E n \in last.names : getNextRunTime(jobs[n].sched, now).throws

\* C27 (as claimed): a step of start() or add() that calls scheduleJob does
\* not itself put a record in the running table: the dispatch of an overdue
\* job happens in a later step, after the caller's step has ended.
C27_DispatchDeferred ==
  \A n \in Names : Scheduled(n) => Executions(n) = <<>>

C29_ConflictRejected ==
  \A n \in Names :
    /\ jobs[n].reg => jobs[n].sched.kind # "dateTimeout"
    /\ \A p \in LiveTimers(n) : p.sched.kind # "dateTimeout"

\* C30 (as claimed): the duration of every 'complete' and 'error' event is
\* the time from the start instant its own execution recorded to the
\* settlement (the 0 of an execution that fails within its dispatch
\* included), also with several executions of a name in flight and when a
\* child delivers 'error' and then 'exit'.
C30_DurationOfOwnRun ==
  \A i \in DOMAIN last.events :
    Terminal(last.events[i]) =>
      \/ last.events[i].duration = "elapsed"
      \/ last.events[i].duration = "zero" /\ last.res[last.events[i].name] # <<>>

\* what a dispatch of n does, by n's own descriptor and running record
OwnOutcome(n) ==
  LET job == IF jobs[n].reg THEN jobs[n] ELSE minimalJob
  IN IF job.wo /\ running[n] THEN {"already_running"}
     ELSE IF job.paused THEN {"paused"}
     ELSE {"started", "missing"}

\* C31, the frame: a call or callback on the one name n leaves the timer
\* entry, the armed handles, the running record and the descriptor (paused
\* flag included) of every other name as they were.
C31_OthersUnchanged ==
  \A n \in Names :
    (last'.names = {n} /\ last'.op # "initialize") =>
      \A o \in Names \ {n} :
        /\ timers'[o] = timers[o] /\ LiveTimers(o)' = LiveTimers(o)
        /\ running'[o] = running[o] /\ jobs'[o] = jobs[o]

\* C31, the dispatch: what run(n) or the firing of n's timer does with n is
\* decided by n's own descriptor and running record, whatever is in flight
\* for the other names.
C31_OwnDispatch ==
  \A n \in Names :
    (last'.op \in {"run", "fire"} /\ last'.names = {n} /\ Dispatched(n)') =>
      Outcome(n)' \in OwnOutcome(n)

\* C31: operations on one job name leave every other job name's timer,
\* running record, paused flag and descriptor unchanged, and an execution in
\* flight for one job does not suppress the dispatch of another.
C31_Frame == [][C31_OthersUnchanged /\ C31_OwnDispatch]_vars

\* C31 witness: the timer of one job fired and started an execution while an
\* execution of the other job was in flight and the other job's handle armed
C31_Witness ==
  \E n \in Names, o \in Names :
    /\ n # o /\ last.op = "fire" /\ last.names = {n} /\ Started(n)
    /\ InFlight(o) = 1 /\ running[o] /\ LiveTimers(o) # {}

\* C32 (as claimed): the paused flag of a name that stays registered changes
\* only in a step of pause or resume; start, stop, run, a firing, a
\* settlement and add() of the same name leave it as it is.
C32_PausedOnlyByPauseResume ==
  [][\A n \in Names :
       (jobs[n].reg /\ jobs'[n].reg /\ jobs'[n].paused # jobs[n].paused)
         => last'.op \in {"pause", "resume"}]_vars

\* the registered names
Registered == {n \in Names : jobs[n].reg}

\* C33: every name with an entry in the timers Map, and every name an armed
\* handle belongs to, is a registered job; after stop() over all the
\* registered names no entry and no armed handle is left.
C33_TimersOfRegistered ==
  /\ \A n \in Names : timers[n] # NoTimer => n \in Registered
  /\ \A p \in pending : p.name \in Registered
  /\ (last.op = "stop" /\ last.names = Registered) =>
       (pending = {} /\ \A n \in Names : timers[n] = NoTimer)

\* C33 witness: stop() over the two registered jobs cleared the handle of each
C33_Witness ==
  /\ last.op = "stop" /\ last.names = Registered
  /\ Cardinality(Registered) = 2 /\ last.cleared = Registered
  /\ pending = {}

\* C34 (as claimed): a name has an entry in the timers Map iff a handle armed
\* for it has not fired yet; after the timer of a one-shot job has fired the
\* Map has no entry for the name.
C34_EntryIffPending ==
  \A n \in Names : timers[n] # NoTimer <=> LiveTimers(n) # {}

\* C35: run(n) on a name that is not registered is never skipped: it starts
\* an execution (or fails on a missing script), also while the name has a
\* record in the running table and an execution in flight.
C35_UnregisteredRuns ==
  [][\A n \in Names :
       (last'.op = "run" /\ last'.names = {n} /\ ~jobs[n].reg) =>
         /\ Len(last'.res[n]) = 1
         /\ Outcome(n)' \in {"started", "missing"}
         /\ Outcome(n)' = "started" =>
              (running'[n] /\ InFlight(n)' = InFlight(n) + 1)]_vars

\* C35 witness: run() on an unregistered name started an execution next to
\* one already in flight
C35_Witness ==
  \E n \in Names :
    /\ last.op = "run" /\ ~jobs[n].reg /\ last.res[n] = <<"started">>
    /\ InFlight(n) = 2

\* the name a script file's quest block resolves to
QuestName(scriptDef) ==
  IF scriptDef.name # "" THEN scriptDef.name ELSE scriptDef.file

\* C36 (as claimed): after the load of a job that the config list and a
\* script's quest block both define, every key of the config entry's inputs
\* that quest.inputs does not define is kept in the job's inputs.
C36_ConfigInputsKept ==
  (last.op = "initialize" /\ ~last.thrown) =>
    \A i \in DOMAIN scope.config : \A j \in DOMAIN scope.scripts :
      LET cfg == scope.config[i]
          scriptDef == scope.scripts[j]
      IN (scriptDef.quest /\ QuestName(scriptDef) = cfg.name
            /\ Declarations(cfg.name) = 2) =>
           \A k \in Keys :
             (cfg.inputs[k] # Undef /\ scriptDef.inputs[k] = Undef) =>
               jobs[cfg.name].inputs[k] = cfg.inputs[k]

\* how often a call emitted an event
Emitted(c, type) ==
  Cardinality({k \in DOMAIN c.events : c.events[k] = type})

\* C37 (as claimed): every call of a machine job function emits the started
\* event once and first, never both the complete and the error event, exactly
\* one of them once it has settled, and it throws exactly when it emitted the
\* error event.
C37_OneTerminalEvent ==
  \A i \in DOMAIN invocations :
    LET c == invocations[i]
        terminals == Emitted(c, "quest:job:complete")
                       + Emitted(c, "quest:job:error")
    IN /\ Emitted(c, "quest:job:started") = 1
       /\ c.events[1] = "quest:job:started"
       /\ terminals <= 1
       /\ c.at \in {"returned", "thrown"} =>
            /\ terminals = 1
            /\ c.at = "thrown" <=> Emitted(c, "quest:job:error") = 1
====
